---------------------------- MODULE Spec2Model ----------------------------
(***************************************************************************)
(* A model of spinning_wheel/ast_extensions.py: the node transformers      *)
(* (ImportNodeFlattener, ImportNodeDeduplicator,                            *)
(* ClassAndFunctionDeduplicator, LineRangeRemover,                          *)
(* CompositeNodeTransformer) and union_and_deconflict_modules, and of      *)
(* spinning_wheel/spinning_wheel.py: spinning_wheel_entrypoint with        *)
(* get_local_file_text and get_git_file_text.                              *)
(*                                                                         *)
(* Spec is one call of union_and_deconflict_modules, EntrySpec one run of  *)
(* the entrypoint, TwoCallsSpec two interleaved calls of the merge and     *)
(* PipelineSpec a CompositeNodeTransformer over any stage list.            *)
(*                                                                         *)
(* Python objects live in a heap: a sequence of node records, an object's  *)
(* identity being its index.  A list-valued field (names, body) holds the  *)
(* indices of its elements, so in-place rewriting of a node or of one of   *)
(* its lists is an update of the heap at that index, and aliasing between  *)
(* trees is two trees reaching the same index.                             *)
(***************************************************************************)
EXTENDS Integers, Sequences, FiniteSets, TLC

VARIABLES
    heap,                        \* every allocated ast node, by identity
    primary_module,              \* argument: the caller's primary tree
    reference_module,            \* argument: the caller's reference tree
    reference_ranges_to_remove,  \* argument: [isNone, ranges]
    cloned_primary,              \* local of union_and_deconflict_modules
    cloned_reference,            \* local of union_and_deconflict_modules
    unioned_module,              \* local of union_and_deconflict_modules
    observed_name_tuples,        \* ImportNodeDeduplicator._observed_name_tuples
    observed_names,              \* ClassAndFunctionDeduplicator._observed_names
    collected_nodes,             \* local of CompositeNodeTransformer.visit
    visitor_index,               \* position of the loop over _node_visitors
    result,                      \* the value union_and_deconflict_modules returns
    pc,                          \* position inside union_and_deconflict_modules
    node_visitors,               \* CompositeNodeTransformer._node_visitors
    removal_ranges,              \* LineRangeRemover._removal_ranges
    composite_result,            \* the value CompositeNodeTransformer.visit returns
    pending_nodes,               \* nodes a caller has yet to hand to a transformer
    other,                       \* the locals of a second, suspended call
    entry_pc,                    \* position inside spinning_wheel_entrypoint
    files,                       \* the local file system, by path
    template_repo,               \* what the template repository serves
    user_source_contents,        \* local of spinning_wheel_entrypoint
    user_module,                 \* local of spinning_wheel_entrypoint
    lambda_template_source_contents,  \* local of spinning_wheel_entrypoint
    lambda_template_module       \* local of spinning_wheel_entrypoint

\* the state of spinning_wheel_entrypoint and of its environment
entry_vars == <<entry_pc, files, template_repo, user_source_contents, user_module,
                lambda_template_source_contents, lambda_template_module>>

\* the state of the callers of the transformers and of the merge
caller_vars == <<pending_nodes, other>>

vars == <<heap, primary_module, reference_module, reference_ranges_to_remove,
          cloned_primary, cloned_reference, unioned_module,
          observed_name_tuples, observed_names, collected_nodes,
          visitor_index, result, pc, node_visitors, removal_ranges,
          composite_result, caller_vars, entry_vars>>

-----------------------------------------------------------------------------
(* Bounds of the explored inputs. *)

\* total number of top-level statements of the two enumerated input trees
MaxStmts == 3
\* largest line number an enumerated removal range mentions
MaxLine == 2

-----------------------------------------------------------------------------
(* Values. *)

\* Python's None in a string-valued attribute (asname, module)
None == "None"
\* getattr(node, "lineno", None) of a node without position
NoLine == 0
\* ImportFrom.level when the constructor is not given one
NoLevel == -1
\* "no object" in an object-valued variable
Null == 0

ImportKinds == {"Import", "ImportFrom"}
DefKinds == {"FunctionDef", "AsyncFunctionDef", "ClassDef"}

\* the node a parser builds, before it is placed in the heap: names and body
\* hold the child nodes themselves; inline tells that the source text has the
\* body on the line of the header
Node(kind, name, asname, module, level, names, body) ==
    [kind |-> kind, name |-> name, asname |-> asname, module |-> module,
     level |-> level, names |-> names, body |-> body, inline |-> FALSE]

alias(name, asname) == Node("alias", name, asname, None, NoLevel, <<>>, <<>>)
Import(names) == Node("Import", None, None, None, NoLevel, names, <<>>)
ImportFrom(module, names, level) ==
    Node("ImportFrom", None, None, module, level, names, <<>>)
FunctionDef(name, body) == Node("FunctionDef", name, None, None, NoLevel, <<>>, body)
AsyncFunctionDef(name, body) ==
    Node("AsyncFunctionDef", name, None, None, NoLevel, <<>>, body)
ClassDef(name, body) == Node("ClassDef", name, None, None, NoLevel, <<>>, body)
If(body) == Node("If", None, None, None, NoLevel, <<>>, body)
Expr == Node("Expr", None, None, None, NoLevel, <<>>, <<>>)
\* the compound statement n written on one line, as in `def func1(): pass`
OnOneLine(n) == [n EXCEPT !.inline = TRUE]

\* a heap object: the node's attributes, its position, and its child lists as
\* sequences of identities
Obj(n, lineno, end_lineno, names, body) ==
    [kind |-> n.kind, name |-> n.name, asname |-> n.asname, module |-> n.module,
     level |-> n.level, lineno |-> lineno, end_lineno |-> end_lineno,
     names |-> names, body |-> body]

Alloc(h, o) == [heap |-> Append(h, o), addr |-> Len(h) + 1]

\* `then`, once `first` has been computed: statements run in sequence
Seq2(first, then) == IF first = first THEN then ELSE then

-----------------------------------------------------------------------------
(* ast.parse: the tree of a source text, placed in the heap.  A simple     *)
(* statement takes one line, a compound statement its header line followed *)
(* by the lines of its body, or the header line alone when it is written   *)
(* on one line; an alias sits on the line of its import.                   *)

RECURSIVE ParseNode(_, _, _), ParseList(_, _, _, _)

\* the statement n starting on line `line`: [heap, addr, next] where next is
\* the first line after it
ParseNode(h, n, line) ==
    LET ns == ParseList(h, n.names, line, TRUE)
        bs == ParseList(ns.heap, n.body, IF n.inline THEN line ELSE line + 1,
                        n.inline)
        last == IF n.body = <<>> \/ n.inline THEN line ELSE bs.next - 1
        a == Alloc(bs.heap, Obj(n, line, last, ns.addrs, bs.addrs))
    IN  Seq2(ns, Seq2(bs, [heap |-> a.heap, addr |-> a.addr, next |-> last + 1]))

\* the nodes of ns in order: all on `line` when sameLine (the aliases of an
\* import, the body of a one-line statement), on consecutive lines from
\* `line` otherwise
ParseList(h, ns, line, sameLine) ==
    IF ns = <<>> THEN [heap |-> h, addrs |-> <<>>, next |-> line]
    ELSE LET first == ParseNode(h, Head(ns), line)
             rest == ParseList(first.heap, Tail(ns),
                               IF sameLine THEN line ELSE first.next, sameLine)
         IN  Seq2(first, [heap |-> rest.heap, addrs |-> <<first.addr>> \o rest.addrs,
                          next |-> rest.next])

\* ast.parse(source): a Module, which has no position, over the statements
Parse(h, stmts) ==
    LET bs == ParseList(h, stmts, 1, FALSE)
        m == Node("Module", None, None, None, NoLevel, <<>>, <<>>)
    IN  Alloc(bs.heap, Obj(m, NoLine, NoLine, <<>>, bs.addrs))

-----------------------------------------------------------------------------
(* Reading a tree out of the heap. *)

RECURSIVE Reachable(_, _), Dump(_, _)

\* the identities of the nodes of the tree rooted at a (ast.walk)
Reachable(h, a) ==
    {a} \cup UNION {Reachable(h, h[a].names[i]) : i \in DOMAIN h[a].names}
        \cup UNION {Reachable(h, h[a].body[i]) : i \in DOMAIN h[a].body}

\* the structure and content of the tree rooted at a, without identities
\* (ast.dump with attributes)
Dump(h, a) ==
    [h[a] EXCEPT !.names = [i \in DOMAIN h[a].names |-> Dump(h, h[a].names[i])],
                 !.body = [i \in DOMAIN h[a].body |-> Dump(h, h[a].body[i])]]

-----------------------------------------------------------------------------
(* copy.deepcopy *)

RECURSIVE DeepCopy(_, _), DeepCopyList(_, _)

\* a copy of the tree rooted at a made of new objects: [heap, addr]
DeepCopy(h, a) ==
    LET ns == DeepCopyList(h, h[a].names)
        bs == DeepCopyList(ns.heap, h[a].body)
    IN  Seq2(ns, Seq2(bs, Alloc(bs.heap, [h[a] EXCEPT !.names = ns.addrs,
                                                   !.body = bs.addrs])))

DeepCopyList(h, as) ==
    IF as = <<>> THEN [heap |-> h, addrs |-> <<>>]
    ELSE LET first == DeepCopy(h, Head(as))
             rest == DeepCopyList(first.heap, Tail(as))
         IN  Seq2(first, [heap |-> rest.heap, addrs |-> <<first.addr>> \o rest.addrs])

-----------------------------------------------------------------------------
(* The node transformers.  A transformer's visit takes the transformer's   *)
(* state and the heap (st) and a node, and yields the new st and the       *)
(* sequence of nodes that replace the visited one: empty for None, one     *)
(* node, or the elements of a returned list.                               *)

Transformers == {"ImportNodeFlattener", "ImportNodeDeduplicator",
                 "ClassAndFunctionDeduplicator", "LineRangeRemover"}

State(h, tuples, names, ranges) ==
    [heap |-> h, observed_name_tuples |-> tuples, observed_names |-> names,
     removal_ranges |-> ranges]

\* ---- ImportNodeFlattener ----

\* the lambda of visit_Import: a new Import over a new alias(n.name, n.asname)
FlattenImportAlias(h, node, n) ==
    LET al == Alloc(h, Obj(alias(h[n].name, h[n].asname), NoLine, NoLine, <<>>, <<>>))
    IN  Alloc(al.heap, Obj(Import(<<>>), NoLine, NoLine, <<al.addr>>, <<>>))

\* the lambda of visit_ImportFrom: a new ImportFrom(node.module, [alias]); no
\* level is passed
FlattenImportFromAlias(h, node, n) ==
    LET al == Alloc(h, Obj(alias(h[n].name, h[n].asname), NoLine, NoLine, <<>>, <<>>))
    IN  Alloc(al.heap, Obj(ImportFrom(h[node].module, <<>>, NoLevel),
                           NoLine, NoLine, <<al.addr>>, <<>>))

RECURSIVE FlattenNames(_, _, _)

\* list(map(lambda, names)) for the import node `node`
FlattenNames(h, node, names) ==
    IF names = <<>> THEN [heap |-> h, addrs |-> <<>>]
    ELSE LET first == IF h[node].kind = "Import"
                      THEN FlattenImportAlias(h, node, Head(names))
                      ELSE FlattenImportFromAlias(h, node, Head(names))
             rest == FlattenNames(first.heap, node, Tail(names))
         IN  Seq2(first, [heap |-> rest.heap, addrs |-> <<first.addr>> \o rest.addrs])

FlattenerVisitImport(st, node) ==
    LET r == FlattenNames(st.heap, node, st.heap[node].names)
    IN  [st |-> [st EXCEPT !.heap = r.heap], out |-> r.addrs]

\* ---- ImportNodeDeduplicator ----

\* a slip: the alias alone as the key
AsnameOnly(h, name) == <<h[name].asname>>

\* name_tuple = (name.name, name.asname)
NameTuple(h, name) == <<h[name].name, h[name].asname>>

\* a slip: the key looked up for the aliases of plain imports only
UnobservedImport(h, observed, name) ==
    LET holder == CHOOSE i \in DOMAIN h :
                      \E j \in DOMAIN h[i].names : h[i].names[j] = name
    IN  NameTuple(h, name) \notin observed \/ h[holder].kind = "ImportFrom"

\* if name_tuple not in self._observed_name_tuples
Unobserved(h, observed, name) == NameTuple(h, name) \notin observed

\* a slip: nothing is filtered and nothing recorded
KeepAllNames(h, observed, names) == [observed |-> observed, filtered |-> names]

RECURSIVE FilterNames(_, _, _)

\* the loop of _remove_duplicate_aliases: [observed, filtered]
FilterNames(h, observed, names) ==
    IF names = <<>> THEN [observed |-> observed, filtered |-> <<>>]
    ELSE LET t == NameTuple(h, Head(names))
             new == Unobserved(h, observed, Head(names))
             rest == FilterNames(h, IF new THEN observed \cup {t} ELSE observed,
                                 Tail(names))
         IN  [observed |-> rest.observed,
              filtered |-> (IF new THEN <<Head(names)>> ELSE <<>>) \o rest.filtered]

\* a slip: the node looked up as a whole by its first alias, dropped when
\* that key was observed and kept with all its aliases otherwise
NodeLevelDedup(st, node) ==
    LET names == st.heap[node].names
        keys == {NameTuple(st.heap, names[i]) : i \in DOMAIN names}
    IN  IF names # <<>> /\ NameTuple(st.heap, names[1]) \in st.observed_name_tuples
        THEN [st |-> st, out |-> <<>>]
        ELSE [st |-> [st EXCEPT !.observed_name_tuples = @ \cup keys],
              out |-> <<node>>]

RemoveDuplicateAliases(st, node) ==
    LET f == FilterNames(st.heap, st.observed_name_tuples, st.heap[node].names)
    IN  IF f.filtered # <<>>
        THEN [st |-> [st EXCEPT !.heap[node].names = f.filtered,
                                !.observed_name_tuples = f.observed],
              out |-> <<node>>]
        ELSE [st |-> [st EXCEPT !.observed_name_tuples = f.observed],
              out |-> <<>>]

RECURSIVE Visit(_, _, _), GenericVisit(_, _, _), VisitList(_, _, _)

\* ---- ClassAndFunctionDeduplicator ----

\* a slip: names recorded per kind of definition
SameKindOnly(st, node) ==
    LET key == <<st.heap[node].kind, st.heap[node].name>>
    IN  IF key \in st.observed_names
        THEN [st |-> st, out |-> <<>>]
        ELSE [st |-> [st EXCEPT !.observed_names = @ \cup {key}], out |-> <<node>>]

NodeOrNoneIfExists(st, node) ==
    IF st.heap[node].name \in st.observed_names
    THEN [st |-> st, out |-> <<>>]
    ELSE [st |-> [st EXCEPT !.observed_names = @ \cup {st.heap[node].name}],
          out |-> <<node>>]

\* a slip: the body of a retained definition visited as well
VisitDefinitionAndBody(st, node) ==
    LET kept == NodeOrNoneIfExists(st, node)
    IN  IF kept.out = <<>> THEN kept
        ELSE GenericVisit("ClassAndFunctionDeduplicator", kept.st, node)

\* visit_FunctionDef, visit_AsyncFunctionDef, visit_ClassDef
VisitDefinition(st, node) == NodeOrNoneIfExists(st, node)

\* ---- LineRangeRemover ----

\* a slip: the low boundary of a range excluded
ExclusiveLow(boundary, removal_range) ==
    IF boundary # NoLine
    THEN removal_range[1] < boundary /\ boundary <= removal_range[2]
    ELSE FALSE

\* the lambda of LineRangeRemover.visit
BoundaryInRange(boundary, removal_range) ==
    IF boundary # NoLine
    THEN removal_range[1] <= boundary /\ boundary <= removal_range[2]
    ELSE FALSE

\* a slip: a node without position dropped as well
UnpositionedDropped(h, ranges, node) ==
    \/ h[node].lineno = NoLine /\ h[node].end_lineno = NoLine
    \/ \E i \in DOMAIN ranges :
          \/ BoundaryInRange(h[node].lineno, ranges[i])
          \/ BoundaryInRange(h[node].end_lineno, ranges[i])

\* the condition under which LineRangeRemover.visit returns None
InRemovalRanges(h, ranges, node) ==
    LET node_start == h[node].lineno
        node_end == h[node].end_lineno
    IN  /\ (node_start # NoLine \/ node_end # NoLine)
        /\ \E i \in DOMAIN ranges :
              \/ BoundaryInRange(node_start, ranges[i])
              \/ BoundaryInRange(node_end, ranges[i])

\* ---- ast.NodeTransformer ----

\* a slip: a list of one node where the node itself is meant
ReturnedSingleton(node) == [list |-> TRUE, nodes |-> <<node>>]

\* what a visit hands back to its caller: one node, or a list of nodes
ReturnedNode(node) == [list |-> FALSE, nodes |-> <<node>>]
ReturnedList(nodes) == [list |-> TRUE, nodes |-> nodes]
\* nothing handed back yet
NotReturned == [list |-> FALSE, nodes |-> <<>>]


\* NodeVisitor.visit: the visit_<class> method of the transformer when it has
\* one, generic_visit otherwise; LineRangeRemover overrides visit itself
Visit(visitor, st, node) ==
    LET kind == st.heap[node].kind
    IN  CASE visitor = "LineRangeRemover" ->
                IF InRemovalRanges(st.heap, st.removal_ranges, node)
                THEN [st |-> st, out |-> <<>>]
                ELSE GenericVisit(visitor, st, node)
          [] visitor = "ImportNodeFlattener" /\ kind \in ImportKinds ->
                FlattenerVisitImport(st, node)
          [] visitor = "ImportNodeDeduplicator" /\ kind \in ImportKinds ->
                RemoveDuplicateAliases(st, node)
          [] visitor = "ClassAndFunctionDeduplicator" /\ kind \in DefKinds ->
                VisitDefinition(st, node)
          [] OTHER -> GenericVisit(visitor, st, node)

\* the list branch of generic_visit: visit each element, skip None, splice
\* lists: [st, out]
VisitList(visitor, st, values) ==
    IF values = <<>> THEN [st |-> st, out |-> <<>>]
    ELSE LET first == Visit(visitor, st, Head(values))
             rest == VisitList(visitor, first.st, Tail(values))
         IN  Seq2(first, [st |-> rest.st, out |-> first.out \o rest.out])

\* NodeTransformer.generic_visit: each list field is rewritten in place
\* (old_value[:] = new_values), the node itself is returned
GenericVisit(visitor, st, node) ==
    LET ns == VisitList(visitor, st, st.heap[node].names)
        st1 == [ns.st EXCEPT !.heap[node].names = ns.out]
        bs == VisitList(visitor, st1, st1.heap[node].body)
        st2 == [bs.st EXCEPT !.heap[node].body = bs.out]
    IN  Seq2(ns, Seq2(bs, [st |-> st2, out |-> <<node>>]))

-----------------------------------------------------------------------------
(* The inputs explored: the source texts handed to ast.parse and the       *)
(* removal ranges.                                                         *)

Pass == <<Expr>>

\* the statements the enumerated source texts are made of: a multi-alias
\* import; a relative from-import that repeats a key and renames a symbol; a
\* function and a class of one name, the class importing in its body; a
\* definition inside a compound statement, itself holding a definition; a
\* plain statement
Statements ==
    { Import(<<alias("os", None), alias("sys", "system")>>),
      ImportFrom("math", <<alias("os", None), alias("os", "system"),
                           alias("os", None)>>, 1),
      FunctionDef("func1", Pass),
      ClassDef("func1", <<Import(<<alias("os", None)>>)>>),
      If(<<AsyncFunctionDef("func2", <<FunctionDef("func1", Pass)>>), Expr>>),
      Expr }

\* the source texts of n statements
Sources(n) == [1..n -> Statements]

\* the reference_ranges_to_remove argument: None, or a tuple of (low, high)
RangesArg(isNone, ranges) == [isNone |-> isNone, ranges |-> ranges]

RangeArgs ==
    {RangesArg(TRUE, <<>>), RangesArg(FALSE, <<>>)}
    \cup UNION { {RangesArg(FALSE, <<<<low, high>>>>) : high \in low..MaxLine}
                  : low \in 1..MaxLine }
    \cup {RangesArg(FALSE, <<<<1, 1>>, <<MaxLine, MaxLine>>>>)}

Input(primary, reference, ranges) ==
    [primary |-> primary, reference |-> reference, ranges |-> ranges]

\* test_union_and_deconflict
CrossKindPrimary ==
    <<OnOneLine(FunctionDef("func1", Pass)), OnOneLine(ClassDef("Class1", Pass)),
      Import(<<alias("os", None)>>)>>
CrossKindReference ==
    <<OnOneLine(FunctionDef("func2", Pass)), OnOneLine(ClassDef("Class1", Pass)),
      Import(<<alias("sys", None)>>)>>
\* the import nodes of test_remove_duplicate_aliases
TwoImportsPrimary == <<Import(<<alias("os", None), alias("sys", "system")>>)>>
TwoImportsReference == <<Import(<<alias("os", None), alias("datetime", None)>>)>>
\* one symbol imported from two modules, and once more under an alias
TwoModules ==
    <<ImportFrom("a", <<alias("x", None)>>, 0),
      ImportFrom("b", <<alias("x", None), alias("x", "y")>>, 1)>>
\* test_remove_range
FiveLines == <<Expr, Expr, Expr, Expr, Expr>>
FiveLinesRanges == RangesArg(FALSE, <<<<2, 4>>>>)
\* test_union_with_range_removal
RangeRemovalPrimary == <<OnOneLine(FunctionDef("func1", Pass))>>
RangeRemovalReference ==
    <<OnOneLine(FunctionDef("func2", Pass)), OnOneLine(FunctionDef("func3", Pass)),
      OnOneLine(FunctionDef("func4", Pass))>>
RangeRemovalRanges == RangesArg(FALSE, <<<<2, 2>>>>)

\* a reference whose duplicate definition imports what it also imports at top
\* level
LostImportPrimary == <<FunctionDef("func1", Pass)>>
LostImportReference ==
    <<AsyncFunctionDef("func1", <<Import(<<alias("os", None)>>)>>),
      Import(<<alias("os", None)>>)>>
\* a reference definition spanning lines 1..3 around the range (2, 2)
StraddledReference == <<FunctionDef("func2", <<Expr, Expr>>)>>
StraddledRanges == RangesArg(FALSE, <<<<2, 2>>>>)

ScenarioInputs ==
    { Input(LostImportPrimary, LostImportReference, RangesArg(TRUE, <<>>)),
      Input(<<>>, StraddledReference, StraddledRanges),
      Input(CrossKindPrimary, CrossKindReference, RangesArg(TRUE, <<>>)),
      Input(TwoImportsPrimary, TwoImportsReference, RangesArg(TRUE, <<>>)),
      Input(<<>>, FiveLines, FiveLinesRanges),
      Input(RangeRemovalPrimary, RangeRemovalReference, RangeRemovalRanges) }

-----------------------------------------------------------------------------
(* union_and_deconflict_modules, statement by statement. *)

\* a slip: the caller's tree itself is used where a copy is meant
NoCopy(h, a) == [heap |-> h, addr |-> a]

\* copy.deepcopy as union_and_deconflict_modules calls it
deepcopy(h, a) == DeepCopy(h, a)

\* a slip: the reference's statements extended before the primary's
ReferenceFirstBody(h, primary, reference) == h[reference].body \o h[primary].body

\* the body of unioned_module after the two extend calls
UnionBody(h, primary, reference) == h[primary].body \o h[reference].body

\* a slip: the definition deduplicator left out of the list
VisitorsWithoutDefinitions == <<"ImportNodeFlattener", "ImportNodeDeduplicator">>

\* the transformers list of union_and_deconflict_modules
transformers ==
    <<"ImportNodeFlattener", "ImportNodeDeduplicator", "ClassAndFunctionDeduplicator">>

\* no second call is suspended
NoCall == [suspended |-> FALSE]

\* spinning_wheel_entrypoint is not running
NotEntered ==
    /\ entry_pc = "none"
    /\ files = <<>>
    /\ template_repo = [reachable |-> FALSE, found |-> FALSE,
                        text |-> [valid |-> TRUE, stmts |-> <<>>]]
    /\ user_source_contents = [valid |-> TRUE, stmts |-> <<>>]
    /\ user_module = Null
    /\ lambda_template_source_contents = [valid |-> TRUE, stmts |-> <<>>]
    /\ lambda_template_module = Null

\* the caller has parsed the two source texts and calls the function
Called(primary, reference, ranges) ==
    LET p == Parse(<<>>, primary)
        r == Parse(p.heap, reference)
    IN  /\ p = p
        /\ heap = r.heap
        /\ primary_module = p.addr
        /\ reference_module = r.addr
        /\ reference_ranges_to_remove = ranges
        /\ cloned_primary = Null
        /\ cloned_reference = Null
        /\ unioned_module = Null
        /\ observed_name_tuples = {}
        /\ observed_names = {}
        /\ collected_nodes = <<>>
        /\ visitor_index = 0
        /\ result = Null
        /\ pc = "call"
        /\ node_visitors = <<>>
        /\ removal_ranges = <<>>
        /\ composite_result = NotReturned
        /\ pending_nodes = <<>>
        /\ other = NoCall
        /\ NotEntered

\* two source texts of at most MaxStmts statements together with any ranges,
\* a source text of at most MaxStmts statements merged with itself, or one of
\* the scenarios
Init ==
    \/ \E inp \in ScenarioInputs : Called(inp.primary, inp.reference, inp.ranges)
    \/ \E k \in 0..MaxStmts : \E j \in 0..(MaxStmts - k) :
          \E p \in Sources(k), r \in Sources(j), g \in RangeArgs : Called(p, r, g)
    \/ \E k \in 0..MaxStmts : \E t \in Sources(k) : Called(t, t, RangesArg(TRUE, <<>>))

\* cloned_primary = deepcopy(primary_module); cloned_reference = deepcopy(...)
Clone ==
    /\ pc = "call"
    /\ LET cp == deepcopy(heap, primary_module)
           cr == deepcopy(cp.heap, reference_module)
       IN  /\ heap' = cr.heap
           /\ cloned_primary' = cp.addr
           /\ cloned_reference' = cr.addr
    /\ pc' = "cloned"
    /\ UNCHANGED <<primary_module, reference_module, reference_ranges_to_remove,
                   unioned_module, observed_name_tuples, observed_names,
                   collected_nodes, visitor_index, result>>
    /\ UNCHANGED <<node_visitors, removal_ranges, composite_result, caller_vars, entry_vars>>

\* `if reference_ranges_to_remove:` is false for None and for an empty tuple
RangesGiven == ~reference_ranges_to_remove.isNone
               /\ reference_ranges_to_remove.ranges # <<>>

\* a slip: the primary clone handed to the remover
PrimaryTarget(primary, reference) == primary

\* the tree line_range_remover.visit is called on
RemovalTarget(primary, reference) == reference

\* LineRangeRemover(reference_ranges_to_remove).visit(cloned_reference)
RemoveLineRanges ==
    /\ pc = "cloned"
    /\ RangesGiven
    /\ LET r == Visit("LineRangeRemover",
                      State(heap, {}, {}, reference_ranges_to_remove.ranges),
                      RemovalTarget(cloned_primary, cloned_reference))
       IN  heap' = r.st.heap
    /\ removal_ranges' = reference_ranges_to_remove.ranges
    /\ pc' = "preprocessed"
    /\ UNCHANGED <<primary_module, reference_module, reference_ranges_to_remove,
                   cloned_primary, cloned_reference, unioned_module,
                   observed_name_tuples, observed_names, collected_nodes,
                   visitor_index, result>>
    /\ UNCHANGED <<node_visitors, composite_result, caller_vars, entry_vars>>

\* no ranges: the reference clone goes on as it is
SkipLineRanges ==
    /\ pc = "cloned"
    /\ ~RangesGiven
    /\ pc' = "preprocessed"
    /\ UNCHANGED <<heap, primary_module, reference_module, reference_ranges_to_remove,
                   cloned_primary, cloned_reference, unioned_module,
                   observed_name_tuples, observed_names, collected_nodes,
                   visitor_index, result>>
    /\ UNCHANGED <<node_visitors, removal_ranges, composite_result, caller_vars, entry_vars>>

\* unioned_module = ast.Module([], []) extended by both clones' bodies; the
\* three transformers are created with empty observed sets; the composite's
\* visit starts with collected_nodes = [node]
BuildUnion ==
    /\ pc = "preprocessed"
    /\ LET m == Node("Module", None, None, None, NoLevel, <<>>, <<>>)
           u == Alloc(heap, Obj(m, NoLine, NoLine, <<>>,
                                UnionBody(heap, cloned_primary, cloned_reference)))
       IN  /\ heap' = u.heap
           /\ unioned_module' = u.addr
           /\ collected_nodes' = <<u.addr>>
    /\ observed_name_tuples' = {}
    /\ observed_names' = {}
    /\ node_visitors' = transformers
    /\ visitor_index' = 1
    /\ pc' = "composite"
    /\ UNCHANGED <<primary_module, reference_module, reference_ranges_to_remove,
                   cloned_primary, cloned_reference, result>>
    /\ UNCHANGED <<removal_ranges, composite_result, caller_vars, entry_vars>>

\* one round of the loop of CompositeNodeTransformer.visit: the next
\* transformer visits every collected node, its outputs are the next
\* collected nodes
CompositeStage ==
    /\ pc = "composite"
    /\ visitor_index <= Len(node_visitors)
    /\ LET r == VisitList(node_visitors[visitor_index],
                          State(heap, observed_name_tuples, observed_names,
                                removal_ranges),
                          collected_nodes)
       IN  /\ heap' = r.st.heap
           /\ observed_name_tuples' = r.st.observed_name_tuples
           /\ observed_names' = r.st.observed_names
           /\ collected_nodes' = r.out
    /\ visitor_index' = visitor_index + 1
    /\ UNCHANGED <<primary_module, reference_module, reference_ranges_to_remove,
                   cloned_primary, cloned_reference, unioned_module, result, pc>>
    /\ UNCHANGED <<node_visitors, removal_ranges, composite_result, caller_vars, entry_vars>>

\* the return statement of CompositeNodeTransformer.visit, `to` being where
\* the caller goes on: the list when it holds more than one node, its first
\* element otherwise; collected_nodes[0] raises IndexError on an empty list
CompositeReturns(to) ==
    /\ pc = "composite"
    /\ visitor_index > Len(node_visitors)
    /\ IF Len(collected_nodes) > 1
       THEN composite_result' = ReturnedList(collected_nodes) /\ pc' = to
       ELSE IF collected_nodes # <<>>
       THEN composite_result' = ReturnedNode(collected_nodes[1]) /\ pc' = to
       ELSE composite_result' = composite_result /\ pc' = "IndexError"
    /\ UNCHANGED <<heap, primary_module, reference_module, reference_ranges_to_remove,
                   cloned_primary, cloned_reference, unioned_module,
                   observed_name_tuples, observed_names, collected_nodes,
                   visitor_index, result, node_visitors, removal_ranges>>
    /\ UNCHANGED <<caller_vars, entry_vars>>

\* composite_transformer.visit(unioned_module) returns; its value is discarded
CompositeReturn == CompositeReturns("return")

\* return unioned_module
Return ==
    /\ pc = "return"
    /\ result' = unioned_module
    /\ pc' = "done"
    /\ UNCHANGED <<heap, primary_module, reference_module, reference_ranges_to_remove,
                   cloned_primary, cloned_reference, unioned_module,
                   observed_name_tuples, observed_names, collected_nodes,
                   visitor_index>>
    /\ UNCHANGED <<node_visitors, removal_ranges, composite_result, caller_vars, entry_vars>>

Next ==
    \/ Clone
    \/ RemoveLineRanges
    \/ SkipLineRanges
    \/ BuildUnion
    \/ CompositeStage
    \/ CompositeReturn
    \/ Return

Spec == Init /\ [][Next]_vars

-----------------------------------------------------------------------------
(* spinning_wheel_entrypoint, statement by statement, with the local file  *)
(* system and the template repository it reads.                            *)

\* the two arguments of spinning_wheel_entrypoint
user_source_path == "user_source_path"
desired_output_path == "desired_output_path"
Paths == {user_source_path, desired_output_path}

\* a text: the statements it holds when it is valid Python
Text(valid, stmts) == [valid |-> valid, stmts |-> stmts]
EmptyText == Text(TRUE, <<>>)
InvalidText == Text(FALSE, <<>>)

\* a path of the file system: whether a file exists there, and its text
File(exists, text) == [exists |-> exists, text |-> text]
NoFile == File(FALSE, EmptyText)

\* the repository: whether it can be cloned, whether the expected file is
\* found under the expected directory, and the text of that file
Repo(reachable, found, text) == [reachable |-> reachable, found |-> found, text |-> text]

\* _REFERENCE_LINE_RANGES_TO_REMOVE
REFERENCE_LINE_RANGES_TO_REMOVE == <<<<8, 9>>>>

\* an expression statement that ast.parse accepts and ast.unparse refuses: an
\* f-string whose expression holds a string literal with a control character
ControlCharFString ==
    Node("Expr", "f-string of a control character", None, None, NoLevel, <<>>, <<>>)

\* ast.unparse returns a text for the tree rooted at a
CanUnparse(h, a) ==
    \A n \in Reachable(h, a) : h[n].name # ControlCharFString.name

RECURSIVE Unparse(_, _)

\* ast.unparse: the source of the node a, which carries no position
Unparse(h, a) ==
    Node(h[a].kind, h[a].name, h[a].asname, h[a].module, h[a].level,
         [i \in DOMAIN h[a].names |-> Unparse(h, h[a].names[i])],
         [i \in DOMAIN h[a].body |-> Unparse(h, h[a].body[i])])

\* largest number of statements of an enumerated user source
MaxUserStmts == 1

\* what the user's file may hold
UserTexts ==
    {InvalidText, Text(TRUE, <<ControlCharFString>>),
     Text(TRUE, <<FunctionDef("func1", <<ControlCharFString>>)>>)}
    \cup UNION { {Text(TRUE, t) : t \in Sources(k)} : k \in 0..MaxUserStmts }

\* a template with statements on lines 8 and 9, between its imports and its
\* definitions
TemplateStatements ==
    << Import(<<alias("os", None)>>), Import(<<alias("sys", "system")>>),
       Expr, Expr, Expr, Expr, Expr, Expr, Expr,
       FunctionDef("func1", Pass), FunctionDef("func2", Pass) >>

\* what the repository may serve
TemplateRepos ==
    {Repo(FALSE, FALSE, EmptyText), Repo(TRUE, FALSE, EmptyText),
     Repo(TRUE, TRUE, InvalidText), Repo(TRUE, TRUE, EmptyText),
     Repo(TRUE, TRUE, Text(TRUE, TemplateStatements))}

\* an output left by an earlier run
OldOutput == File(TRUE, Text(TRUE, <<Expr>>))

\* union_and_deconflict_modules has not been called
MergeIdle ==
    /\ heap = <<>>
    /\ primary_module = Null
    /\ reference_module = Null
    /\ reference_ranges_to_remove = RangesArg(TRUE, <<>>)
    /\ cloned_primary = Null
    /\ cloned_reference = Null
    /\ unioned_module = Null
    /\ observed_name_tuples = {}
    /\ observed_names = {}
    /\ collected_nodes = <<>>
    /\ visitor_index = 0
    /\ result = Null
    /\ pc = "idle"
    /\ node_visitors = <<>>
    /\ removal_ranges = <<>>
    /\ composite_result = NotReturned

\* spinning_wheel_entrypoint(user_source_path, desired_output_path) is called
EntryInit ==
    /\ MergeIdle
    /\ pending_nodes = <<>>
    /\ other = NoCall
    /\ entry_pc = "start"
    /\ \E user \in {NoFile} \cup {File(TRUE, t) : t \in UserTexts},
          output \in {NoFile, OldOutput} :
          files = [p \in Paths |-> IF p = user_source_path THEN user ELSE output]
    /\ template_repo \in TemplateRepos
    /\ user_source_contents = EmptyText
    /\ user_module = Null
    /\ lambda_template_source_contents = EmptyText
    /\ lambda_template_module = Null

merge_vars == <<heap, primary_module, reference_module, reference_ranges_to_remove,
                cloned_primary, cloned_reference, unioned_module,
                observed_name_tuples, observed_names, collected_nodes,
                visitor_index, result, pc, node_visitors, removal_ranges,
                composite_result>>

\* a slip: no existence check, a missing file read as an empty text
ReadWithoutCheck ==
    /\ entry_pc = "start"
    /\ user_source_contents' = files[user_source_path].text
    /\ entry_pc' = "read"
    /\ UNCHANGED <<merge_vars, caller_vars, files, template_repo, user_module,
                   lambda_template_source_contents, lambda_template_module>>

\* get_local_file_text: ValueError when the path does not exist, the text of
\* the file otherwise
GetLocalFileText ==
    /\ entry_pc = "start"
    /\ IF ~files[user_source_path].exists
       THEN entry_pc' = "ValueError" /\ UNCHANGED user_source_contents
       ELSE /\ user_source_contents' = files[user_source_path].text
            /\ entry_pc' = "read"
    /\ UNCHANGED <<merge_vars, caller_vars, files, template_repo, user_module,
                   lambda_template_source_contents, lambda_template_module>>

\* user_module = ast.parse(user_source_contents)
ParseUserSource ==
    /\ entry_pc = "read"
    /\ IF ~user_source_contents.valid
       THEN entry_pc' = "SyntaxError" /\ UNCHANGED <<heap, user_module>>
       ELSE LET p == Parse(heap, user_source_contents.stmts)
            IN  /\ heap' = p.heap
                /\ user_module' = p.addr
                /\ entry_pc' = "user_parsed"
    /\ UNCHANGED <<primary_module, reference_module, reference_ranges_to_remove,
                   cloned_primary, cloned_reference, unioned_module,
                   observed_name_tuples, observed_names, collected_nodes,
                   visitor_index, result, pc, node_visitors, removal_ranges,
                   composite_result, caller_vars, files, template_repo,
                   user_source_contents, lambda_template_source_contents,
                   lambda_template_module>>

\* get_git_file_text: the clone fails, or RuntimeError when the file is not
\* found in the clone, or the text of the file
GetGitFileText ==
    /\ entry_pc = "user_parsed"
    /\ IF ~template_repo.reachable
       THEN entry_pc' = "GitCommandError" /\ UNCHANGED lambda_template_source_contents
       ELSE IF ~template_repo.found
       THEN entry_pc' = "RuntimeError" /\ UNCHANGED lambda_template_source_contents
       ELSE /\ lambda_template_source_contents' = template_repo.text
            /\ entry_pc' = "fetched"
    /\ UNCHANGED <<merge_vars, caller_vars, files, template_repo,
                   user_source_contents, user_module, lambda_template_module>>

\* lambda_template_module = ast.parse(lambda_template_source_contents)
ParseTemplateSource ==
    /\ entry_pc = "fetched"
    /\ IF ~lambda_template_source_contents.valid
       THEN entry_pc' = "SyntaxError" /\ UNCHANGED <<heap, lambda_template_module>>
       ELSE LET p == Parse(heap, lambda_template_source_contents.stmts)
            IN  /\ heap' = p.heap
                /\ lambda_template_module' = p.addr
                /\ entry_pc' = "template_parsed"
    /\ UNCHANGED <<primary_module, reference_module, reference_ranges_to_remove,
                   cloned_primary, cloned_reference, unioned_module,
                   observed_name_tuples, observed_names, collected_nodes,
                   visitor_index, result, pc, node_visitors, removal_ranges,
                   composite_result, caller_vars, files, template_repo,
                   user_source_contents, user_module,
                   lambda_template_source_contents>>

\* union_and_deconflict_modules(user_module, lambda_template_module,
\* _REFERENCE_LINE_RANGES_TO_REMOVE) is called
CallUnion ==
    /\ entry_pc = "template_parsed"
    /\ primary_module' = user_module
    /\ reference_module' = lambda_template_module
    /\ reference_ranges_to_remove' = RangesArg(FALSE, REFERENCE_LINE_RANGES_TO_REMOVE)
    /\ pc' = "call"
    /\ entry_pc' = "merging"
    /\ UNCHANGED <<heap, cloned_primary, cloned_reference, unioned_module,
                   observed_name_tuples, observed_names, collected_nodes,
                   visitor_index, result, node_visitors, removal_ranges,
                   composite_result, caller_vars, files, template_repo,
                   user_source_contents, user_module,
                   lambda_template_source_contents, lambda_template_module>>

\* with open(desired_output_path, "w") as output_file: the file is created
\* or truncated
OpenOutput ==
    /\ entry_pc = "merging"
    /\ pc = "done"
    /\ files' = [files EXCEPT ![desired_output_path] = File(TRUE, EmptyText)]
    /\ entry_pc' = "opened"
    /\ UNCHANGED <<merge_vars, caller_vars, template_repo, user_source_contents,
                   user_module, lambda_template_source_contents,
                   lambda_template_module>>

\* output_file.write(ast.unparse(unioned_module)): the argument is evaluated,
\* then written; ast.unparse raises ValueError on what it cannot render
WriteOutput ==
    /\ entry_pc = "opened"
    /\ IF ~CanUnparse(heap, result)
       THEN entry_pc' = "ValueError" /\ UNCHANGED files
       ELSE /\ files' = [files EXCEPT ![desired_output_path] =
                            File(TRUE, Text(TRUE, Unparse(heap, result).body))]
            /\ entry_pc' = "returned"
    /\ UNCHANGED <<merge_vars, caller_vars, template_repo, user_source_contents,
                   user_module, lambda_template_source_contents,
                   lambda_template_module>>

EntryNext ==
    \/ GetLocalFileText
    \/ ParseUserSource
    \/ GetGitFileText
    \/ ParseTemplateSource
    \/ CallUnion
    \/ Clone
    \/ RemoveLineRanges
    \/ BuildUnion
    \/ CompositeStage
    \/ CompositeReturn
    \/ Return
    \/ OpenOutput
    \/ WriteOutput

EntrySpec == EntryInit /\ [][EntryNext]_vars

-----------------------------------------------------------------------------
(* Two calls of union_and_deconflict_modules that run interleaved, as in   *)
(* two threads: each has its own locals, among them the transformers it    *)
(* created; the heap holds the objects of both.                            *)

\* total number of statements of the trees two interleaved calls work on
MaxCallStmts == 1

\* the locals of the running call, set aside
Suspend ==
    [suspended |-> TRUE,
     primary_module |-> primary_module, reference_module |-> reference_module,
     reference_ranges_to_remove |-> reference_ranges_to_remove,
     cloned_primary |-> cloned_primary, cloned_reference |-> cloned_reference,
     unioned_module |-> unioned_module,
     observed_name_tuples |-> observed_name_tuples, observed_names |-> observed_names,
     collected_nodes |-> collected_nodes, visitor_index |-> visitor_index,
     result |-> result, pc |-> pc, node_visitors |-> node_visitors,
     removal_ranges |-> removal_ranges, composite_result |-> composite_result]

\* the locals of a call that has just been made
Entered(primary, reference, ranges) ==
    [suspended |-> TRUE,
     primary_module |-> primary, reference_module |-> reference,
     reference_ranges_to_remove |-> ranges,
     cloned_primary |-> Null, cloned_reference |-> Null, unioned_module |-> Null,
     observed_name_tuples |-> {}, observed_names |-> {},
     collected_nodes |-> <<>>, visitor_index |-> 0,
     result |-> Null, pc |-> "call", node_visitors |-> <<>>,
     removal_ranges |-> <<>>, composite_result |-> NotReturned]

\* a slip: one set of observed keys or names for all calls, so that a call
\* going on finds what the call that ran last left
SharedObserved(own, left) == left

\* the observed set of a transformer when its call goes on: the set of the
\* call's own transformer instance
ResumedObserved(own, left) == own

\* the running call is suspended and the suspended one goes on
Switch ==
    /\ other.suspended
    /\ other' = Suspend
    /\ primary_module' = other.primary_module
    /\ reference_module' = other.reference_module
    /\ reference_ranges_to_remove' = other.reference_ranges_to_remove
    /\ cloned_primary' = other.cloned_primary
    /\ cloned_reference' = other.cloned_reference
    /\ unioned_module' = other.unioned_module
    /\ observed_name_tuples' =
          ResumedObserved(other.observed_name_tuples, observed_name_tuples)
    /\ observed_names' = ResumedObserved(other.observed_names, observed_names)
    /\ collected_nodes' = other.collected_nodes
    /\ visitor_index' = other.visitor_index
    /\ result' = other.result
    /\ pc' = other.pc
    /\ node_visitors' = other.node_visitors
    /\ removal_ranges' = other.removal_ranges
    /\ composite_result' = other.composite_result
    /\ UNCHANGED <<heap, pending_nodes, entry_vars>>

\* the ranges the two calls are given
CallRangeArgs == {RangesArg(TRUE, <<>>), RangesArg(FALSE, <<<<1, 1>>>>)}

\* two trees are parsed; one call is made on them, and a second call on the
\* same two trees, in the same or in exchanged roles
TwoCallsInit ==
    \E k \in 0..MaxCallStmts : \E j \in 0..(MaxCallStmts - k) :
      \E s \in Sources(k), t \in Sources(j), g \in CallRangeArgs, h \in CallRangeArgs :
        LET p == Parse(<<>>, s)
            r == Parse(p.heap, t)
        IN  \E second \in {<<p.addr, r.addr>>, <<r.addr, p.addr>>} :
              /\ p = p
              /\ heap = r.heap
              /\ primary_module = p.addr
              /\ reference_module = r.addr
              /\ reference_ranges_to_remove = g
              /\ cloned_primary = Null
              /\ cloned_reference = Null
              /\ unioned_module = Null
              /\ observed_name_tuples = {}
              /\ observed_names = {}
              /\ collected_nodes = <<>>
              /\ visitor_index = 0
              /\ result = Null
              /\ pc = "call"
              /\ node_visitors = <<>>
              /\ removal_ranges = <<>>
              /\ composite_result = NotReturned
              /\ pending_nodes = <<>>
              /\ other = Entered(second[1], second[2], h)
              /\ NotEntered

TwoCallsNext ==
    \/ Clone
    \/ RemoveLineRanges
    \/ SkipLineRanges
    \/ BuildUnion
    \/ CompositeStage
    \/ CompositeReturn
    \/ Return
    \/ Switch

TwoCallsSpec == TwoCallsInit /\ [][TwoCallsNext]_vars

-----------------------------------------------------------------------------
(* A CompositeNodeTransformer built over any list of transformers and      *)
(* called on one node after another, as the tests call the transformers:   *)
(* the transformer instances keep what they observed from one call to the  *)
(* next.                                                                   *)

\* largest number of statements of a tree the transformers are called on
MaxPipelineStmts == 2

\* the lists of transformers a CompositeNodeTransformer is built over: none,
\* each transformer alone, each two in a row, and the list of the merge
StageLists ==
    {<<>>} \cup {<<a>> : a \in Transformers}
    \cup {<<a, b>> : a \in Transformers, b \in Transformers}
    \cup {transformers}

\* the tree of the statements built by calling the node constructors, as the
\* fixtures do: no node has a position
Construct(h, stmts) ==
    LET p == Parse(h, stmts)
    IN  [heap |-> [i \in DOMAIN p.heap |->
                      IF i <= Len(h) THEN p.heap[i]
                      ELSE [p.heap[i] EXCEPT !.lineno = NoLine, !.end_lineno = NoLine]],
         addr |-> p.addr]

\* the ranges a LineRangeRemover is built with
RemoverRanges == {g.ranges : g \in RangeArgs}

\* the transformers are created and the caller holds the nodes to visit
Composed(tree, stages, ranges, nodes) ==
    /\ heap = tree.heap
    /\ primary_module = Null
    /\ reference_module = Null
    /\ reference_ranges_to_remove = RangesArg(TRUE, <<>>)
    /\ cloned_primary = Null
    /\ cloned_reference = Null
    /\ unioned_module = Null
    /\ observed_name_tuples = {}
    /\ observed_names = {}
    /\ collected_nodes = <<>>
    /\ visitor_index = 0
    /\ result = Null
    /\ pc = "ready"
    /\ node_visitors = stages
    /\ removal_ranges = ranges
    /\ composite_result = NotReturned
    /\ pending_nodes = nodes
    /\ other = NoCall
    /\ NotEntered

\* a tree, parsed from a source text or built by the constructors; a list of
\* transformers; the nodes to visit: the module, or its statements one after
\* another.  Or the two import nodes of test_remove_duplicate_aliases, or a
\* module importing one symbol from two modules.
PipelineInit ==
    \/ \E k \in 0..MaxPipelineStmts : \E s \in Sources(k), built \in BOOLEAN,
          stages \in StageLists, whole \in BOOLEAN :
          \E ranges \in IF \E i \in DOMAIN stages : stages[i] = "LineRangeRemover"
                        THEN RemoverRanges ELSE {<<>>} :
             LET tree == IF built THEN Construct(<<>>, s) ELSE Parse(<<>>, s)
             IN  Composed(tree, stages, ranges,
                          IF whole THEN <<tree.addr>> ELSE tree.heap[tree.addr].body)
    \/ LET tree == Construct(<<>>, TwoImportsPrimary \o TwoImportsReference)
       IN  Composed(tree, <<"ImportNodeDeduplicator">>, <<>>, tree.heap[tree.addr].body)
    \/ LET tree == Parse(<<>>, TwoModules)
       IN  \E stages \in {<<"ImportNodeDeduplicator">>, transformers} :
              Composed(tree, stages, <<>>, <<tree.addr>>)

\* composite.visit(node) is called on the next node
PipelineVisit ==
    /\ pc = "ready"
    /\ pending_nodes # <<>>
    /\ collected_nodes' = <<Head(pending_nodes)>>
    /\ pending_nodes' = Tail(pending_nodes)
    /\ visitor_index' = 1
    /\ pc' = "composite"
    /\ UNCHANGED <<heap, primary_module, reference_module, reference_ranges_to_remove,
                   cloned_primary, cloned_reference, unioned_module,
                   observed_name_tuples, observed_names, result, node_visitors,
                   removal_ranges, composite_result, other, entry_vars>>

\* composite.visit(node) returns to the caller
PipelineReturn == CompositeReturns("ready")

PipelineNext ==
    \/ PipelineVisit
    \/ CompositeStage
    \/ PipelineReturn

PipelineSpec == PipelineInit /\ [][PipelineNext]_vars

-----------------------------------------------------------------------------
(* Reading the trees for the properties. *)

RECURSIVE DefsReached(_, _), ImportsReached(_, _), Concat(_)

Concat(ss) == IF ss = <<>> THEN <<>> ELSE Head(ss) \o Concat(Tail(ss))

\* the definitions under the statements `nodes` that a traversal reaches
\* without passing through another definition, in traversal order
DefsReached(h, nodes) ==
    IF nodes = <<>> THEN <<>>
    ELSE (IF h[Head(nodes)].kind \in DefKinds THEN <<Head(nodes)>>
          ELSE DefsReached(h, h[Head(nodes)].body))
         \o DefsReached(h, Tail(nodes))

\* the import statements under the statements `nodes`, at any depth, in
\* traversal order
ImportsReached(h, nodes) ==
    IF nodes = <<>> THEN <<>>
    ELSE (IF h[Head(nodes)].kind \in ImportKinds THEN <<Head(nodes)>>
          ELSE ImportsReached(h, h[Head(nodes)].body))
         \o ImportsReached(h, Tail(nodes))

NamesOf(h, nodes) == {h[nodes[i]].name : i \in DOMAIN nodes}

\* the (symbol, alias) pairs of one import statement, in order
KeysOfImport(h, node) ==
    [i \in DOMAIN h[node].names |-> <<h[h[node].names[i]].name, h[h[node].names[i]].asname>>]

\* the (symbol, alias) pairs of a sequence of import statements, in order
KeysOf(h, imports) == Concat([i \in DOMAIN imports |-> KeysOfImport(h, imports[i])])

Range(s) == {s[i] : i \in DOMAIN s}

\* the tree ast.parse builds for a source text, without identities
SourceOf(stmts) == LET p == Parse(<<>>, stmts) IN Dump(p.heap, p.addr)

\* the call is the one on the given source texts
CalledOn(primary, reference) ==
    /\ Dump(heap, primary_module) = SourceOf(primary)
    /\ Dump(heap, reference_module) = SourceOf(reference)

-----------------------------------------------------------------------------
(* C1. Non-mutation: whatever the trees and the ranges argument, no step   *)
(* of union_and_deconflict_modules changes the structure or content of the *)
(* caller's primary or reference tree, and when the call has returned no   *)
(* node of the returned tree is a node of either input tree.               *)
C1_NonMutation ==
    [][ /\ primary_module' = primary_module
        /\ reference_module' = reference_module
        /\ Dump(heap', primary_module) = Dump(heap, primary_module)
        /\ Dump(heap', reference_module) = Dump(heap, reference_module)
        /\ pc' = "done" =>
              Reachable(heap', result')
                \cap (Reachable(heap', primary_module')
                      \cup Reachable(heap', reference_module')) = {} ]_vars

\* a returned merge in which a range removed a reference statement, a
\* multi-alias primary import was flattened and an alias was filtered out
C1_Witness ==
    /\ pc = "done"
    /\ RangesGiven
    /\ \E i \in DOMAIN heap[reference_module].body :
          InRemovalRanges(heap, reference_ranges_to_remove.ranges,
                          heap[reference_module].body[i])
    /\ \E i \in DOMAIN heap[primary_module].body :
          LET keys == KeysOfImport(heap, heap[primary_module].body[i])
          IN  Len(keys) > 1 /\ Cardinality(Range(keys)) < Len(keys)

(* C2. Primary precedence: for a definition name that both trees define    *)
(* (at top level or inside a non-definition compound statement, where the  *)
(* deduplicator reaches it), the returned tree holds exactly one           *)
(* definition of that name, it is the copy of a primary node, and it comes *)
(* before every definition that stems from the reference.                  *)
C2_PrimaryPrecedence ==
    pc = "done" =>
        LET defs == DefsReached(heap, heap[result].body)
            fromPrimary == Reachable(heap, cloned_primary)
            both == NamesOf(heap, DefsReached(heap, heap[primary_module].body))
                    \cap NamesOf(heap, DefsReached(heap, heap[reference_module].body))
        IN  \A n \in both :
              \E i \in DOMAIN defs :
                  /\ heap[defs[i]].name = n
                  /\ defs[i] \in fromPrimary
                  /\ \A j \in DOMAIN defs :
                        /\ heap[defs[j]].name = n => j = i
                        /\ defs[j] \notin fromPrimary => i < j

\* a returned merge where the reference defines a shared name and, before
\* it, a name of its own
C2_Witness ==
    /\ pc = "done"
    /\ LET pdefs == DefsReached(heap, heap[primary_module].body)
           rdefs == DefsReached(heap, heap[reference_module].body)
       IN  \E i, j \in DOMAIN rdefs :
              /\ i < j
              /\ heap[rdefs[i]].name \notin NamesOf(heap, pdefs)
              /\ heap[rdefs[j]].name \in NamesOf(heap, pdefs)
              /\ ~InRemovalRanges(heap, reference_ranges_to_remove.ranges, rdefs[i])

-----------------------------------------------------------------------------
(* The top-level statements of a tree as the tests inspect them. *)

\* kind, name, module and (symbol, alias) pairs of a statement
Shape(h, node) ==
    [kind |-> h[node].kind, name |-> h[node].name, module |-> h[node].module,
     keys |-> KeysOfImport(h, node)]

Shapes(h, nodes) == [i \in DOMAIN nodes |-> Shape(h, nodes[i])]

DefShape(kind, name) == [kind |-> kind, name |-> name, module |-> None, keys |-> <<>>]
ImportShape(kind, module, key) ==
    [kind |-> kind, name |-> None, module |-> module, keys |-> <<key>>]

\* the names of the definitions among the statements `nodes` themselves
TopDefNames(h, nodes) ==
    {h[nodes[i]].name : i \in {j \in DOMAIN nodes : h[nodes[j]].kind \in DefKinds}}

\* the ranges in force: none when the argument is None or empty
EffectiveRanges ==
    IF RangesGiven THEN reference_ranges_to_remove.ranges ELSE <<>>

RECURSIVE DefsKept(_, _, _), ImportsKept(_, _, _)

\* DefsReached, leaving out what lies in the ranges
DefsKept(h, ranges, nodes) ==
    IF nodes = <<>> THEN <<>>
    ELSE (IF InRemovalRanges(h, ranges, Head(nodes)) THEN <<>>
          ELSE IF h[Head(nodes)].kind \in DefKinds THEN <<Head(nodes)>>
          ELSE DefsKept(h, ranges, h[Head(nodes)].body))
         \o DefsKept(h, ranges, Tail(nodes))

\* ImportsReached, leaving out what lies in the ranges
ImportsKept(h, ranges, nodes) ==
    IF nodes = <<>> THEN <<>>
    ELSE (IF InRemovalRanges(h, ranges, Head(nodes)) THEN <<>>
          ELSE IF h[Head(nodes)].kind \in ImportKinds THEN <<Head(nodes)>>
          ELSE ImportsKept(h, ranges, h[Head(nodes)].body))
         \o ImportsKept(h, ranges, Tail(nodes))

-----------------------------------------------------------------------------
(* C3. Completeness of the union: without exclusion ranges, every import   *)
(* key that occurs anywhere in the primary or the reference occurs in the  *)
(* returned tree, and every definition name at the top level of either     *)
(* input is at the top level of the returned tree.                         *)
C3_UnionComplete ==
    (pc = "done" /\ ~RangesGiven) =>
        LET inputs == heap[primary_module].body \o heap[reference_module].body
        IN  /\ Range(KeysOf(heap, ImportsReached(heap, inputs)))
                 \subseteq Range(KeysOf(heap, ImportsReached(heap, heap[result].body)))
            /\ TopDefNames(heap, inputs) \subseteq TopDefNames(heap, heap[result].body)

(* C4. The cross-kind scenario as the specification words it: primary      *)
(* [def func1, class Class1, import os] merged with reference [def func2,  *)
(* class Class1, import sys] returns exactly four statements: func1,       *)
(* Class1, import os, func2.                                               *)
C4_FourSurvivors ==
    (pc = "done" /\ CalledOn(CrossKindPrimary, CrossKindReference) /\ ~RangesGiven) =>
        Shapes(heap, heap[result].body)
          = << DefShape("FunctionDef", "func1"), DefShape("ClassDef", "Class1"),
               ImportShape("Import", None, <<"os", None>>),
               DefShape("FunctionDef", "func2") >>

(* C4 as amended: the same merge returns exactly five statements, func1,   *)
(* Class1, import os, func2, import sys; Class1 is the copy of the         *)
(* primary's class, and the only statement dropped is the reference's      *)
(* Class1.                                                                 *)
C4_FiveSurvivors ==
    (pc = "done" /\ CalledOn(CrossKindPrimary, CrossKindReference) /\ ~RangesGiven) =>
        /\ Shapes(heap, heap[result].body)
             = << DefShape("FunctionDef", "func1"), DefShape("ClassDef", "Class1"),
                  ImportShape("Import", None, <<"os", None>>),
                  DefShape("FunctionDef", "func2"),
                  ImportShape("Import", None, <<"sys", None>>) >>
        /\ heap[result].body[2] = heap[cloned_primary].body[2]
        /\ heap[cloned_reference].body[2] \notin Range(heap[result].body)
        /\ heap[cloned_reference].body[1] \in Range(heap[result].body)

\* the cross-kind merge has returned
C4_Witness ==
    /\ pc = "done"
    /\ CalledOn(CrossKindPrimary, CrossKindReference)
    /\ ~RangesGiven
    /\ Len(heap[result].body) > 0

(* C5. Order-preserving union: the top-level statements of the returned    *)
(* tree are the primary's followed by the reference's, in their order and  *)
(* with each import taken alias by alias (the flattener makes one          *)
(* statement of each alias), from which exactly these are removed: the     *)
(* reference statements lying in the ranges, each definition whose name an *)
(* earlier statement already defined, and each import alias whose key an   *)
(* earlier statement, or an earlier alias of the same statement, already   *)
(* imported.  For the cross-kind scenario the result has five statements.  *)
C5_Entries ==
    LET pbody == heap[primary_module].body
        rbody == heap[reference_module].body
        NotRemoved(node) == ~InRemovalRanges(heap, EffectiveRanges, node)
    IN  [i \in DOMAIN pbody |-> [node |-> pbody[i], ranges |-> <<>>]]
        \o [i \in DOMAIN SelectSeq(rbody, NotRemoved) |->
               [node |-> SelectSeq(rbody, NotRemoved)[i], ranges |-> EffectiveRanges]]

C5_ExpectedAt(entries, i) ==
    LET node == entries[i].node
        kind == heap[node].kind
        seenDefs == UNION { NamesOf(heap, DefsKept(heap, entries[k].ranges,
                                                   <<entries[k].node>>))
                            : k \in 1..(i - 1) }
        seenKeys == UNION { Range(KeysOf(heap, ImportsKept(heap, entries[k].ranges,
                                                           <<entries[k].node>>)))
                            : k \in 1..(i - 1) }
        keys == KeysOfImport(heap, node)
        fresh == {j \in DOMAIN keys :
                     /\ keys[j] \notin seenKeys
                     /\ \A m \in 1..(j - 1) : keys[m] # keys[j]}
        Firsts == [j \in DOMAIN keys |->
                      IF j \in fresh
                      THEN <<ImportShape(kind, heap[node].module, keys[j])>>
                      ELSE <<>>]
    IN  IF kind \in DefKinds
        THEN (IF heap[node].name \in seenDefs THEN <<>> ELSE <<Shape(heap, node)>>)
        ELSE IF kind \in ImportKinds
        THEN Concat(Firsts)
        ELSE <<Shape(heap, node)>>

C5_OrderPreservingUnion ==
    pc = "done" =>
        /\ Shapes(heap, heap[result].body)
             = Concat([i \in DOMAIN C5_Entries |-> C5_ExpectedAt(C5_Entries, i)])
        /\ CalledOn(CrossKindPrimary, CrossKindReference) =>
              Len(heap[result].body) = 5

\* a returned merge in which a range-excluded reference statement and a
\* reference definition that the primary also defines were removed
C5_Witness ==
    /\ pc = "done"
    /\ RangesGiven
    /\ LET rbody == heap[reference_module].body
           pbody == heap[primary_module].body
       IN  /\ \E i \in DOMAIN rbody :
                 InRemovalRanges(heap, EffectiveRanges, rbody[i])
           /\ \E i \in DOMAIN rbody :
                 /\ ~InRemovalRanges(heap, EffectiveRanges, rbody[i])
                 /\ heap[rbody[i]].kind \in DefKinds
                 /\ heap[rbody[i]].name \in TopDefNames(heap, pbody)
           /\ Len(heap[result].body) = Len(pbody)

-----------------------------------------------------------------------------
(* C6. Shared definition namespace, first occurrence wins: when            *)
(* ClassAndFunctionDeduplicator has visited the tree, the definitions its  *)
(* traversal reaches are exactly the first of each name among those it     *)
(* reached before, in their order and whatever their kinds; no two of them *)
(* share a name; and no node of a dropped definition, its body included,   *)
(* is left in the tree.                                                    *)
C6_SharedNamespace ==
    [][ ( /\ pc = "composite"
          /\ visitor_index <= Len(node_visitors)
          /\ node_visitors[visitor_index] = "ClassAndFunctionDeduplicator"
          /\ visitor_index' = visitor_index + 1 ) =>
        LET before == DefsReached(heap, heap[unioned_module].body)
            after == DefsReached(heap', heap'[unioned_module].body)
            first == {i \in DOMAIN before :
                         \A j \in 1..(i - 1) : heap[before[j]].name # heap[before[i]].name}
            IsFirst(d) == \E i \in first : before[i] = d
        IN  /\ after = SelectSeq(before, IsFirst)
            /\ \A i, j \in DOMAIN after :
                  heap'[after[i]].name = heap'[after[j]].name => i = j
            /\ \A i \in DOMAIN before \ first :
                  Reachable(heap, before[i]) \cap Reachable(heap', unioned_module) = {}
            /\ \A i \in first : Dump(heap', before[i]) = Dump(heap, before[i]) ]_vars

\* the deduplicator has visited a tree in which a class and a function of
\* one name met
C6_Witness ==
    /\ pc = "composite"
    /\ visitor_index = Len(node_visitors) + 1
    /\ ~RangesGiven
    /\ LET defs == DefsReached(heap, heap[primary_module].body
                                     \o heap[reference_module].body)
       IN  \E i, j \in DOMAIN defs :
              /\ i < j
              /\ heap[defs[i]].name = heap[defs[j]].name
              /\ heap[defs[i]].kind = "ClassDef"
              /\ heap[defs[j]].kind = "FunctionDef"

-----------------------------------------------------------------------------
RECURSIVE IsSubsequence(_, _)

\* a is b with some elements left out
IsSubsequence(a, b) ==
    IF a = <<>> THEN TRUE
    ELSE IF b = <<>> THEN FALSE
    ELSE IF Head(a) = Head(b) THEN IsSubsequence(Tail(a), Tail(b))
    ELSE IsSubsequence(a, Tail(b))

\* the import aliases of the statements `imports`, one single-alias
\* statement each, in order
AliasByAlias(h, imports) ==
    Concat([i \in DOMAIN imports |->
               [j \in DOMAIN h[imports[i]].names |->
                   ImportShape(h[imports[i]].kind, h[imports[i]].module,
                               KeysOfImport(h, imports[i])[j])]])

(* C7. Flatten then dedup of imports: in the returned tree every import    *)
(* statement holds exactly one alias, no two import statements carry the   *)
(* same (symbol, alias) key, and the import statements are, in order,      *)
(* among the first occurrences of their keys in the primary followed by    *)
(* the reference (what the ranges remove left out), each with the kind and *)
(* module of that first occurrence.  Primary `import os, sys as system`    *)
(* merged with reference `import os, datetime` returns exactly the three   *)
(* statements import os, import sys as system, import datetime.            *)
C7_FlattenThenDedup ==
    pc = "done" =>
        LET imports == ImportsReached(heap, heap[result].body)
            keys == KeysOf(heap, imports)
            occurrences ==
                AliasByAlias(heap, ImportsKept(heap, <<>>, heap[primary_module].body)
                                   \o ImportsKept(heap, EffectiveRanges,
                                                  heap[reference_module].body))
            IsFirst(i) == \A j \in 1..(i - 1) : occurrences[j].keys # occurrences[i].keys
            firsts == Concat([i \in DOMAIN occurrences |->
                                 IF IsFirst(i) THEN <<occurrences[i]>> ELSE <<>>])
        IN  /\ \A i \in DOMAIN imports : Len(heap[imports[i]].names) = 1
            /\ \A i, j \in DOMAIN keys : keys[i] = keys[j] => i = j
            /\ IsSubsequence(Shapes(heap, imports), firsts)
            /\ CalledOn(TwoImportsPrimary, TwoImportsReference) =>
                  Shapes(heap, heap[result].body)
                    = << ImportShape("Import", None, <<"os", None>>),
                         ImportShape("Import", None, <<"sys", "system">>),
                         ImportShape("Import", None, <<"datetime", None>>) >>

\* a returned merge of two multi-alias imports that share a key
C7_Witness ==
    /\ pc = "done"
    /\ Len(heap[primary_module].body) > 0
    /\ Len(heap[reference_module].body) > 0
    /\ LET p == heap[primary_module].body[1]
           r == heap[reference_module].body[1]
       IN  /\ heap[p].kind \in ImportKinds
           /\ heap[r].kind \in ImportKinds
           /\ Len(heap[p].names) > 1
           /\ Len(heap[r].names) > 1
           /\ Range(KeysOfImport(heap, p)) \cap Range(KeysOfImport(heap, r)) # {}
           /\ Len(ImportsReached(heap, heap[result].body)) > 2

-----------------------------------------------------------------------------
\* how many elements of s equal x
Count(s, x) == Cardinality({i \in DOMAIN s : s[i] = x})

(* C8. Self-merge: when a tree is merged with a copy of itself, without    *)
(* ranges, each definition name of the tree appears exactly once among the *)
(* definitions of the returned tree and each import key that occurs in the *)
(* tree appears exactly once among its imports, never zero times.          *)
C8_SelfMergeExactlyOnce ==
    ( /\ pc = "done"
      /\ ~RangesGiven
      /\ Dump(heap, primary_module) = Dump(heap, reference_module) ) =>
        LET defsIn == DefsReached(heap, heap[primary_module].body)
            defsOut == DefsReached(heap, heap[result].body)
            namesOut == [i \in DOMAIN defsOut |-> heap[defsOut[i]].name]
            keysIn == KeysOf(heap, ImportsReached(heap, heap[primary_module].body))
            keysOut == KeysOf(heap, ImportsReached(heap, heap[result].body))
        IN  /\ \A n \in NamesOf(heap, defsIn) : Count(namesOut, n) = 1
            /\ \A k \in Range(keysIn) : Count(keysOut, k) = 1

-----------------------------------------------------------------------------
\* the node has a span and the span [lineno, end_lineno] meets the range
Overlaps(h, node, removal_range) ==
    /\ h[node].lineno # NoLine
    /\ h[node].end_lineno # NoLine
    /\ h[node].lineno <= removal_range[2]
    /\ removal_range[1] <= h[node].end_lineno

(* C9. Overlap means whole-node removal: once LineRangeRemover has visited *)
(* the reference copy, no node whose span overlaps a configured range is   *)
(* left in it (a span that strictly contains the range included), and      *)
(* every statement left in it still has all the sub-nodes it had.          *)
C9_OverlapRemovesWhole ==
    (pc = "preprocessed" /\ RangesGiven) =>
        LET ranges == reference_ranges_to_remove.ranges
            left == Reachable(heap, cloned_reference)
            original == {Dump(heap, n) : n \in Reachable(heap, reference_module)}
        IN  /\ \A n \in left : \A i \in DOMAIN ranges : ~Overlaps(heap, n, ranges[i])
            /\ \A n \in left : Dump(heap, n) \in original

-----------------------------------------------------------------------------
\* a start or end line of the tree's root lies within a range, bounds included
BoundaryHit(t, ranges) ==
    \E i \in DOMAIN ranges :
        \/ t.lineno # NoLine /\ ranges[i][1] <= t.lineno /\ t.lineno <= ranges[i][2]
        \/ t.end_lineno # NoLine /\ ranges[i][1] <= t.end_lineno
                                 /\ t.end_lineno <= ranges[i][2]

RECURSIVE Without(_, _), WithoutAll(_, _)

\* the tree t, given without identities, less every node that BoundaryHit
\* selects
Without(t, ranges) ==
    [t EXCEPT !.names = WithoutAll(t.names, ranges),
              !.body = WithoutAll(t.body, ranges)]

WithoutAll(ts, ranges) ==
    IF ts = <<>> THEN <<>>
    ELSE (IF BoundaryHit(Head(ts), ranges) THEN <<>>
          ELSE <<Without(Head(ts), ranges)>>)
         \o WithoutAll(Tail(ts), ranges)

(* C10. Inclusive range boundaries: LineRangeRemover drops a node exactly  *)
(* when its start line or its end line b satisfies low <= b <= high for    *)
(* some configured range, and keeps every other node in place.  Of five    *)
(* single-line statements on lines 1..5 with the range (2, 4), the         *)
(* statements on lines 1 and 5 remain, in that order.                      *)
C10_InclusiveBoundaries ==
    (pc = "preprocessed" /\ RangesGiven) =>
        /\ Dump(heap, cloned_reference)
             = Without(Dump(heap, reference_module), reference_ranges_to_remove.ranges)
        /\ ( /\ Dump(heap, reference_module) = SourceOf(FiveLines)
             /\ reference_ranges_to_remove = FiveLinesRanges ) =>
              [i \in DOMAIN heap[cloned_reference].body |->
                  heap[heap[cloned_reference].body[i]].lineno] = <<1, 5>>

\* LineRangeRemover has visited statements on low - 1, low, high and high + 1
C10_Witness ==
    /\ pc = "preprocessed"
    /\ RangesGiven
    /\ LET ranges == reference_ranges_to_remove.ranges
           rbody == heap[reference_module].body
           lines == {heap[rbody[i]].lineno : i \in DOMAIN rbody}
       IN  /\ Len(ranges) = 1
           /\ {ranges[1][1] - 1, ranges[1][1], ranges[1][2], ranges[1][2] + 1}
                 \subseteq lines
           /\ Len(heap[cloned_reference].body) = 2


-----------------------------------------------------------------------------
(* C11. Exclusion touches the reference only and precedes deduplication:   *)
(* the tree handed to the transformers is the primary's statements,        *)
(* untouched whatever lines the ranges name, followed by the reference's   *)
(* statements less what the ranges remove (nothing when the argument is    *)
(* None or empty); the names the definition deduplicator records are those *)
(* of the primary's definitions and of the reference definitions that were *)
(* not excluded, so a reference definition survives when only an excluded  *)
(* one shared its name.  Reference [func2, func3, func4] on lines 1..3     *)
(* with the range (2, 2), merged with primary [func1], returns exactly     *)
(* [func1, func2, func4].                                                  *)
C11_ReferenceOnlyExclusion ==
    /\ (pc = "composite" /\ visitor_index = 1) =>
          Dump(heap, unioned_module).body
            = Dump(heap, primary_module).body
              \o Without(Dump(heap, reference_module), EffectiveRanges).body
    /\ pc = "done" =>
          LET pdefs == DefsReached(heap, heap[primary_module].body)
              rdefs == DefsKept(heap, EffectiveRanges, heap[reference_module].body)
              out == DefsReached(heap, heap[result].body)
          IN  /\ observed_names = NamesOf(heap, pdefs) \cup NamesOf(heap, rdefs)
              /\ NamesOf(heap, out) = NamesOf(heap, pdefs) \cup NamesOf(heap, rdefs)
    /\ ( /\ pc = "done"
         /\ CalledOn(RangeRemovalPrimary, RangeRemovalReference)
         /\ reference_ranges_to_remove = RangeRemovalRanges ) =>
          Shapes(heap, heap[result].body)
            = << DefShape("FunctionDef", "func1"), DefShape("FunctionDef", "func2"),
                 DefShape("FunctionDef", "func4") >>

\* a returned merge in which a primary statement lies on a line the ranges
\* name, and a reference definition was excluded whose name a later
\* reference definition, and no primary one, carries
C11_Witness ==
    /\ pc = "done"
    /\ RangesGiven
    /\ LET pbody == heap[primary_module].body
           rbody == heap[reference_module].body
       IN  /\ \E i \in DOMAIN pbody : InRemovalRanges(heap, EffectiveRanges, pbody[i])
           /\ Len(heap[result].body) >= Len(pbody)
           /\ \E i, j \in DOMAIN rbody :
                 /\ i < j
                 /\ heap[rbody[i]].kind \in DefKinds
                 /\ heap[rbody[j]].kind \in DefKinds
                 /\ heap[rbody[i]].name = heap[rbody[j]].name
                 /\ InRemovalRanges(heap, EffectiveRanges, rbody[i])
                 /\ ~InRemovalRanges(heap, EffectiveRanges, rbody[j])
                 /\ heap[rbody[i]].name \notin TopDefNames(heap, pbody)
                 /\ heap[rbody[i]].name \in TopDefNames(heap, heap[result].body)


-----------------------------------------------------------------------------
\* kind, module, relative level, symbol and alias of every alias of the import
\* statements `imports`, in order
ImportEntries(h, imports) ==
    Concat([i \in DOMAIN imports |->
               [j \in DOMAIN h[imports[i]].names |->
                   [kind |-> h[imports[i]].kind, module |-> h[imports[i]].module,
                    level |-> h[imports[i]].level,
                    name |-> h[h[imports[i]].names[j]].name,
                    asname |-> h[h[imports[i]].names[j]].asname]]])

(* C12. Import flattening preserves kind, module, relative level and       *)
(* order: when ImportNodeFlattener has visited the tree, every import      *)
(* statement holds exactly one alias, and the statements are, in order,    *)
(* the aliases of the import statements it found, each with the kind, the  *)
(* module and the relative level of the statement it stood in; no alias is *)
(* dropped.                                                                *)
C12_FlattenPreserves ==
    [][ ( /\ pc = "composite"
          /\ visitor_index <= Len(node_visitors)
          /\ node_visitors[visitor_index] = "ImportNodeFlattener"
          /\ visitor_index' = visitor_index + 1 ) =>
        LET before == ImportsReached(heap, heap[unioned_module].body)
            after == ImportsReached(heap', heap'[unioned_module].body)
        IN  /\ \A i \in DOMAIN after : Len(heap'[after[i]].names) = 1
            /\ ImportEntries(heap', after) = ImportEntries(heap, before) ]_vars


-----------------------------------------------------------------------------
\* the positions at which spinning_wheel_entrypoint ends with an exception
EntryFailures == {"ValueError", "SyntaxError", "GitCommandError", "RuntimeError"}

(* C13. No output on failure: the file at the output path changes (is      *)
(* created, truncated or written) only once the user source was read, both *)
(* texts were parsed, the merge has returned and ast.unparse can render    *)
(* its result; and when the entrypoint has ended with an exception the     *)
(* output path holds what it held before the call.                         *)
C13_NoOutputOnFailure ==
    /\ [][ files'[desired_output_path] # files[desired_output_path] =>
             /\ user_module # Null
             /\ lambda_template_module # Null
             /\ pc = "done"
             /\ CanUnparse(heap, result) ]_vars
    /\ [](entry_pc \in EntryFailures =>
             files[desired_output_path] \in {NoFile, OldOutput})


-----------------------------------------------------------------------------
RECURSIVE RunStages(_, _, _, _)

\* the loop of CompositeNodeTransformer.visit from stage i on, run without
\* interruption: [st, out]
RunStages(stages, i, st, nodes) ==
    IF i > Len(stages) THEN [st |-> st, out |-> nodes]
    ELSE LET r == VisitList(stages[i], st, nodes)
         IN  Seq2(r, RunStages(stages, i + 1, r.st, r.out))

\* the tree union_and_deconflict_modules(primary, reference, ranges) returns
\* when it runs alone from the heap h, without identities
MergedAlone(h, primary, reference, ranges) ==
    LET cp == deepcopy(h, primary)
        cr == deepcopy(cp.heap, reference)
        given == ~ranges.isNone /\ ranges.ranges # <<>>
        pre == IF given
               THEN Visit("LineRangeRemover", State(cr.heap, {}, {}, ranges.ranges),
                          RemovalTarget(cp.addr, cr.addr)).st.heap
               ELSE cr.heap
        m == Node("Module", None, None, None, NoLevel, <<>>, <<>>)
        u == Alloc(pre, Obj(m, NoLine, NoLine, <<>>, UnionBody(pre, cp.addr, cr.addr)))
        run == RunStages(transformers, 1, State(u.heap, {}, {}, ranges.ranges), <<u.addr>>)
    IN  Seq2(cr, Seq2(pre, Dump(run.st.heap, u.addr)))

(* C14. Per-invocation dedup state: in each call the observed import keys  *)
(* and the observed definition names are empty when the transformers have  *)
(* been created, and whatever another call does before or in between the   *)
(* steps of a call, on the same trees or on others, the tree the call      *)
(* returns is the tree it returns when it runs alone on its three          *)
(* arguments.                                                              *)
C14_PerInvocationState ==
    /\ (pc = "composite" /\ visitor_index = 1) =>
          observed_name_tuples = {} /\ observed_names = {}
    /\ pc = "done" =>
          Dump(heap, result)
            = MergedAlone(heap, primary_module, reference_module,
                          reference_ranges_to_remove)
    /\ (other.suspended /\ other.pc = "done") =>
          Dump(heap, other.result)
            = MergedAlone(heap, other.primary_module, other.reference_module,
                          other.reference_ranges_to_remove)

\* a call has returned while the other call, suspended in the middle of its
\* pipeline, holds observed keys of its own, and the returned tree has fewer
\* import aliases than the call's arguments because of the keys the returned
\* call itself observed
C14_Witness ==
    /\ pc = "done"
    /\ other.suspended
    /\ other.pc = "composite"
    /\ other.visitor_index > 2
    /\ other.observed_name_tuples # {}
    /\ observed_name_tuples # {}
    /\ Len(KeysOf(heap, ImportsReached(heap, heap[result].body)))
         < Len(KeysOf(heap, ImportsReached(heap, heap[primary_module].body
                                                 \o heap[reference_module].body)))


-----------------------------------------------------------------------------
\* the step is the one in which the transformer `visitor` of the list visits
\* the collected nodes
StageOf(visitor) ==
    /\ pc = "composite"
    /\ visitor_index <= Len(node_visitors)
    /\ node_visitors[visitor_index] = visitor
    /\ visitor_index' = visitor_index + 1

\* the node carries neither a start line nor an end line
Unpositioned(h, node) == h[node].lineno = NoLine /\ h[node].end_lineno = NoLine

RECURSIVE ComesTo(_, _, _)

\* the nodes a traversal from `node` comes to when it does not go below a
\* node that has a boundary in the ranges
ComesTo(h, ranges, node) ==
    {node} \cup
    (IF BoundaryHit(h[node], ranges) THEN {}
     ELSE UNION {ComesTo(h, ranges, c) : c \in Range(h[node].names \o h[node].body)})

(* C15. Nodes without position data are retained by the excluder: whatever *)
(* the ranges, every node without start and end line that                  *)
(* LineRangeRemover comes to is still in the tree afterwards (still a      *)
(* collected node when it was one), its children were visited (those with  *)
(* a boundary in the ranges are gone, the others are in place), and the    *)
(* visit ends without an error.                                            *)
C15_UnpositionedRetained ==
    [][ StageOf("LineRangeRemover") =>
        /\ pc' = "composite"
        /\ \A c \in Range(collected_nodes) :
              \A n \in ComesTo(heap, removal_ranges, c) :
                 Unpositioned(heap, n) =>
                    LET Stays(x) == ~BoundaryHit(heap[x], removal_ranges)
                    IN  /\ \E a \in Range(collected_nodes') : n \in Reachable(heap', a)
                        /\ n = c => n \in Range(collected_nodes')
                        /\ heap'[n].body = SelectSeq(heap[n].body, Stays)
                        /\ heap'[n].names = SelectSeq(heap[n].names, Stays) ]_vars

\* LineRangeRemover has visited a tree in which a statement without position
\* (an import made by the flattener, or a definition built by a constructor)
\* stands beside a statement that lay in the ranges and is gone
C15_Witness ==
    /\ pc = "composite"
    /\ visitor_index > 1
    /\ node_visitors[visitor_index - 1] = "LineRangeRemover"
    /\ removal_ranges # <<>>
    /\ \E a \in Range(collected_nodes) :
          /\ \E n \in Reachable(heap, a) :
                /\ Unpositioned(heap, n)
                /\ heap[n].kind \in ImportKinds \cup DefKinds
          /\ \E g \in DOMAIN heap :
                /\ heap[g].kind = "Expr"
                /\ BoundaryHit(heap[g], removal_ranges)
                /\ g \notin Reachable(heap, a)


-----------------------------------------------------------------------------
RECURSIVE Offset(_, _, _)

\* how many nodes of the next working set stem from the first i collected
\* nodes when the flattener visits them
Offset(h, nodes, i) ==
    IF i = 0 THEN 0
    ELSE Offset(h, nodes, i - 1)
         + (IF h[nodes[i]].kind \in ImportKinds THEN Len(h[nodes[i]].names) ELSE 1)

(* C16. Stage sequencing in CompositeNodeTransformer.visit: the visit      *)
(* starts with the start node as the only collected node and the first     *)
(* transformer; each step applies the next transformer of the list to      *)
(* every collected node, in order, and the outputs are the next collected  *)
(* nodes: the list the flattener returns for an import is spliced in, one  *)
(* statement per alias, at the place of the import, and a node for which a *)
(* transformer returns None leaves no trace, the others keeping their      *)
(* order; the visit returns only after the last transformer, the remaining *)
(* node itself when there is exactly one (the start node when the list of  *)
(* transformers is empty), the list when there are more.                   *)
C16_StageSequencing ==
    [][ /\ (pc = "ready" /\ pc' = "composite") =>
              /\ collected_nodes' = <<Head(pending_nodes)>>
              /\ visitor_index' = 1
        /\ (pc = "composite" /\ pc' = "composite") =>
              /\ visitor_index <= Len(node_visitors)
              /\ visitor_index' = visitor_index + 1
              /\ IF node_visitors[visitor_index] = "ImportNodeFlattener"
                 THEN /\ Len(collected_nodes')
                           = Offset(heap, collected_nodes, Len(collected_nodes))
                      /\ \A i \in DOMAIN collected_nodes :
                            LET c == collected_nodes[i]
                                at == Offset(heap, collected_nodes, i - 1)
                            IN  IF heap[c].kind \in ImportKinds
                                THEN \A k \in DOMAIN heap[c].names :
                                        /\ heap'[collected_nodes'[at + k]].kind = heap[c].kind
                                        /\ KeysOfImport(heap', collected_nodes'[at + k])
                                             = <<KeysOfImport(heap, c)[k]>>
                                ELSE collected_nodes'[at + 1] = c
                 ELSE IsSubsequence(collected_nodes', collected_nodes)
        /\ (pc = "composite" /\ pc' = "ready") =>
              /\ visitor_index = Len(node_visitors) + 1
              /\ collected_nodes # <<>>
              /\ composite_result' =
                    IF Len(collected_nodes) = 1
                    THEN [list |-> FALSE, nodes |-> collected_nodes]
                    ELSE [list |-> TRUE, nodes |-> collected_nodes]
              /\ node_visitors = <<>> => composite_result'.nodes = collected_nodes ]_vars

\* the visit of a from-import of three aliases by the flattener and then the
\* import deduplicator has returned a list of two nodes: three were spliced
\* in, one was dropped
C16_Witness ==
    /\ pc = "ready"
    /\ node_visitors = <<"ImportNodeFlattener", "ImportNodeDeduplicator">>
    /\ composite_result.list
    /\ Len(composite_result.nodes) = 2
    /\ \A i \in DOMAIN composite_result.nodes :
          heap[composite_result.nodes[i]].kind = "ImportFrom"
    /\ \E g \in DOMAIN heap : heap[g].kind = "ImportFrom" /\ Len(heap[g].names) = 3


-----------------------------------------------------------------------------
(* C17. The pipeline has no error outcome: CompositeNodeTransformer.visit  *)
(* never ends in an exception, whatever the start node and the list of     *)
(* transformers, also when a transformer drops every collected node.       *)
C17_NoErrorOutcome == pc # "IndexError"

-----------------------------------------------------------------------------
(* C18. Per-alias filtering by the import deduplicator: when               *)
(* ImportNodeDeduplicator has visited the collected nodes, each import     *)
(* node it came to, of any number of aliases, holds exactly the aliases    *)
(* whose (name, asname) pair was observed neither before the node nor      *)
(* earlier in it, in their order; the node is gone exactly when none       *)
(* remains; and the observed pairs are the former ones and those of all    *)
(* the nodes it came to.  After `import os, sys as system`, the visit of   *)
(* `import os, datetime` returns the node holding only datetime.           *)
C18_PerAliasFiltering ==
    [][ StageOf("ImportNodeDeduplicator") =>
        LET before == ImportsReached(heap, collected_nodes)
            after == ImportsReached(heap', collected_nodes')
            Seen(i) == observed_name_tuples
                       \cup UNION {Range(KeysOfImport(heap, before[k])) : k \in 1..(i - 1)}
            Fresh(i) == {j \in DOMAIN heap[before[i]].names :
                            /\ KeysOfImport(heap, before[i])[j] \notin Seen(i)
                            /\ \A m \in 1..(j - 1) :
                                  KeysOfImport(heap, before[i])[m]
                                    # KeysOfImport(heap, before[i])[j]}
            Left(i) == Fresh(i) # {}
            IsLeft(n) == \E i \in DOMAIN before : before[i] = n /\ Left(i)
        IN  /\ after = SelectSeq(before, IsLeft)
            /\ \A i \in DOMAIN before :
                  Left(i) =>
                     LET IsFresh(a) == \E j \in Fresh(i) : heap[before[i]].names[j] = a
                     IN  heap'[before[i]].names = SelectSeq(heap[before[i]].names, IsFresh)
            /\ observed_name_tuples' = Seen(Len(before) + 1)
            /\ ( /\ Len(collected_nodes) = 1
                 /\ heap[collected_nodes[1]].kind = "Import"
                 /\ KeysOfImport(heap, collected_nodes[1])
                      = << <<"os", None>>, <<"datetime", None>> >>
                 /\ observed_name_tuples = {<<"os", None>>, <<"sys", "system">>} ) =>
                  /\ collected_nodes' = collected_nodes
                  /\ KeysOfImport(heap', collected_nodes[1]) = << <<"datetime", None>> >> ]_vars

\* after the visit of `import os, sys as system` the deduplicator has visited
\* `import os, datetime` and the visit has returned a node of one alias
C18_Witness ==
    /\ pc = "ready"
    /\ node_visitors = <<"ImportNodeDeduplicator">>
    /\ pending_nodes = <<>>
    /\ observed_name_tuples
         = {<<"os", None>>, <<"sys", "system">>, <<"datetime", None>>}
    /\ ~composite_result.list
    /\ Len(composite_result.nodes) = 1
    /\ KeysOfImport(heap, composite_result.nodes[1]) = << <<"datetime", None>> >>


-----------------------------------------------------------------------------
(* C19. The import dedup key is (symbol, alias) only: when                 *)
(* ImportNodeDeduplicator has visited the collected nodes, the aliases     *)
(* left are, in order, those whose (symbol, alias) pair no earlier alias   *)
(* carried and that was not observed before, each still in a statement of  *)
(* its kind, module and level; so an alias is dropped although its         *)
(* statement differs in kind, module or level from the one that carried    *)
(* the pair first, and an alias whose symbol was imported under another    *)
(* alias is kept.  Of `from a import x` followed by `from b import x,      *)
(* x as y` there remain `from a import x` and `from b import x as y`.      *)
C19_KeyIsSymbolAndAlias ==
    [][ StageOf("ImportNodeDeduplicator") =>
        LET before == ImportEntries(heap, ImportsReached(heap, collected_nodes))
            after == ImportEntries(heap', ImportsReached(heap', collected_nodes'))
            Pair(e) == <<e.name, e.asname>>
            First(i) == /\ Pair(before[i]) \notin observed_name_tuples
                        /\ \A j \in 1..(i - 1) : Pair(before[j]) # Pair(before[i])
        IN  /\ after = Concat([i \in DOMAIN before |->
                                  IF First(i) THEN <<before[i]>> ELSE <<>>])
            /\ ( /\ observed_name_tuples = {}
                 /\ [i \in DOMAIN before |-> <<before[i].module, Pair(before[i])>>]
                      = << <<"a", <<"x", None>>>>, <<"b", <<"x", None>>>>,
                           <<"b", <<"x", "y">>>> >> ) =>
                  [i \in DOMAIN after |-> <<after[i].module, Pair(after[i])>>]
                    = << <<"a", <<"x", None>>>>, <<"b", <<"x", "y">>>> >> ]_vars

\* the deduplicator has visited `from a import x` and `from b import x,
\* x as y`: of the second statement only x as y is left
C19_Witness ==
    /\ pc = "composite"
    /\ visitor_index > 1
    /\ node_visitors[visitor_index - 1] = "ImportNodeDeduplicator"
    /\ observed_name_tuples = {<<"x", None>>, <<"x", "y">>}
    /\ LET left == ImportEntries(heap, ImportsReached(heap, collected_nodes))
       IN  [i \in DOMAIN left |-> <<left[i].module, left[i].name, left[i].asname>>]
             = << <<"a", "x", None>>, <<"b", "x", "y">> >>

-----------------------------------------------------------------------------
RECURSIVE DefsWithin(_, _)

\* the definitions below the nodes `nodes`, at any depth
DefsWithin(h, nodes) ==
    UNION { (IF h[nodes[i]].kind \in DefKinds THEN {nodes[i]} ELSE {})
            \cup DefsWithin(h, h[nodes[i]].body) : i \in DOMAIN nodes }

(* C20. Definition dedup does not descend into definitions: when           *)
(* ClassAndFunctionDeduplicator has visited the tree, the names it has     *)
(* recorded in the visit are those of the definitions reached without      *)
(* passing through another definition, a definition is dropped only if it  *)
(* is one of these, and every definition nested in a retained definition   *)
(* is still in it, with its content, whatever its name.                    *)
C20_NoDescent ==
    [][ StageOf("ClassAndFunctionDeduplicator") =>
        LET before == DefsReached(heap, collected_nodes)
            after == DefsReached(heap', collected_nodes')
            all == UNION {Reachable(heap', collected_nodes'[i])
                          : i \in DOMAIN collected_nodes'}
        IN  /\ observed_names' = observed_names \cup NamesOf(heap, before)
            /\ DefsWithin(heap, collected_nodes) \ DefsWithin(heap', collected_nodes')
                 \subseteq Range(before)
                    \cup UNION {DefsWithin(heap, heap[before[i]].body)
                                : i \in {j \in DOMAIN before : before[j] \notin Range(after)}}
            /\ \A i \in DOMAIN after :
                  \A d \in DefsWithin(heap, heap[after[i]].body) :
                     /\ d \in Reachable(heap', after[i])
                     /\ Dump(heap', d) = Dump(heap, d) ]_vars

\* a returned merge holding a definition and, nested in a definition of
\* another name, a definition of the same name
C20_Witness ==
    /\ pc = "done"
    /\ LET top == DefsReached(heap, heap[result].body)
       IN  \E i, j \in DOMAIN top :
              /\ i # j
              /\ \E d \in DefsWithin(heap, heap[top[j]].body) :
                    heap[d].name = heap[top[i]].name
              /\ top[i] \in Reachable(heap, cloned_primary)
              /\ top[j] \in Reachable(heap, cloned_reference)


-----------------------------------------------------------------------------
(* C21. Local NotFound comes first: the first step of                      *)
(* spinning_wheel_entrypoint is the existence check of the user source     *)
(* path, before which nothing was parsed, fetched or opened; and when the  *)
(* path does not exist the only step of the call is the failure with the   *)
(* not-found ValueError, which leaves no parsed module, no fetched         *)
(* template text, no merge and the output path as it was.                  *)
C21_NotFoundFirst ==
    /\ [][ entry_pc = "start" =>
             /\ entry_pc' \in {"read", "ValueError"}
             /\ (entry_pc' = "ValueError") = ~files[user_source_path].exists
             /\ UNCHANGED <<merge_vars, files, template_repo, user_module,
                            lambda_template_source_contents,
                            lambda_template_module>> ]_vars
    /\ [][ ~files[user_source_path].exists =>
             /\ entry_pc = "start"
             /\ entry_pc' = "ValueError"
             /\ UNCHANGED <<merge_vars, files, template_repo,
                            user_source_contents, user_module,
                            lambda_template_source_contents,
                            lambda_template_module>> ]_vars
    /\ [](entry_pc = "start" \/ ~files[user_source_path].exists =>
             /\ MergeIdle
             /\ user_source_contents = EmptyText
             /\ user_module = Null
             /\ lambda_template_source_contents = EmptyText
             /\ lambda_template_module = Null
             /\ files[desired_output_path] \in {NoFile, OldOutput})

\* the call has failed on a missing user source although the repository
\* would have served the template, and the old output is still in place
C21_Witness ==
    /\ entry_pc = "ValueError"
    /\ ~files[user_source_path].exists
    /\ template_repo = Repo(TRUE, TRUE, Text(TRUE, TemplateStatements))
    /\ files[desired_output_path] = OldOutput
    /\ user_module = Null
    /\ lambda_template_module = Null


=============================================================================
